---- MODULE Spec2Model ----
(***************************************************************************)
(* Command dispatch core of the bot (src/src/bot.ts): the command          *)
(* registry filled by register(), the interactionCreate router with its    *)
(* voice gate and failure containment, the legacy "?play" messageCreate    *)
(* path, and the ready handler that synchronises command registration.     *)
(*                                                                         *)
(* bot.ts holds two class bodies.  The first (lines 19-199) registers      *)
(* interactionCreate, messageCreate and ready; the second (lines 219-337)  *)
(* registers messageCreate (with a try/catch around execute) and ready.    *)
(* `variant` says which of the two is running.                             *)
(***************************************************************************)
EXTENDS Integers, Sequences, FiniteSets, TLC

VARIABLES
  variant,             \* 1: class of lines 19-199, 2: class of lines 219-337
  container,           \* container.getAll(TYPES.Command): the definitions to load
  shouldRegisterCommandsOnBot,
  commandsByName,      \* Collection<string, Command>
  commandsByButtonId,  \* Collection<string, Command>
  phase,               \* position of register(): constructed / listening / failed
  loadError,           \* the name in the Error thrown by the load loop, or NoError
  ix,                  \* the interaction event just routed, with what the router did
  msg,                 \* the plain message just handled, with what the handler did
  ready,               \* position of the once('ready') handler
  tasks,               \* the REST calls of the ready handler: pending / ok / failed
  rejectedBy,          \* the call whose failure rejected the ready handler
  presenceSet,         \* number of setPresence calls made
  syncRuns             \* number of times the ready handler started registering

vars == <<variant, container, shouldRegisterCommandsOnBot, commandsByName,
          commandsByButtonId, phase, loadError, ix, msg, ready, tasks,
          rejectedBy, presenceSet, syncRuns>>

(***************************************************************************)
(* Bounds                                                                  *)
(***************************************************************************)
\* Longest sequence of command definitions the container supplies.
MaxLoad == 2
\* Longest text following "?play" in a plain message.
MaxTail == 3
\* Number of guilds in client.guilds.cache when ready fires.
NumGuilds == 2

(***************************************************************************)
(* Command definitions                                                     *)
(***************************************************************************)
NoError == "<none>"
NoMember == "<no member>"

\* requiresVC is a boolean or a function of the interaction ("fn").
Cmd(id, name, ser, vc, ex, bt, ac, ids) ==
  [id |-> id, name |-> name, serializable |-> ser, requiresVC |-> vc,
   execute |-> ex, handleButtonInteraction |-> bt,
   handleAutocompleteInteraction |-> ac, handledButtonIds |-> ids]

CommandPool ==
  { Cmd("A", "play", TRUE,  "true",  TRUE,  TRUE,  TRUE,  {"b1"}),
    Cmd("B", "play", TRUE,  "fn",    TRUE,  FALSE, FALSE, {"b1", "b2"}),
    Cmd("C", "skip", TRUE,  "false", TRUE,  TRUE,  TRUE,  {"b2"}),
    Cmd("D", "skip", TRUE,  "true",  FALSE, FALSE, FALSE, {}),
    Cmd("E", "",     TRUE,  "false", TRUE,  TRUE,  FALSE, {"b3"}),
    Cmd("X", "bad",  FALSE, "false", TRUE,  TRUE,  FALSE, {"b3"}) }

SeqsUpTo(S, n) == UNION { [1..k -> S] : k \in 0..n }

Containers == SeqsUpTo(CommandPool, MaxLoad)

(***************************************************************************)
(* Collection                                                              *)
(***************************************************************************)
EmptyCollection == [k \in {} |-> k]

Has(coll, key) == key \in DOMAIN coll

\* A variation of CollectionSet that keeps the first value stored under a key.
CollectionSetKeepFirst(coll, key, value) ==
  IF key \in DOMAIN coll THEN coll
  ELSE [k \in DOMAIN coll \cup {key} |-> IF k = key THEN value ELSE coll[k]]

\* Collection.set(key, value): the value replaces any earlier one under key.
CollectionSet(coll, key, value) ==
  [k \in DOMAIN coll \cup {key} |-> IF k = key THEN value ELSE coll[k]]

(***************************************************************************)
(* register(): the load loop                                               *)
(***************************************************************************)
\* A variation of InsertByName that does not look at the name.
InsertByNameUnchecked(byName, command) ==
  CollectionSet(byName, command.name, command)

\* if (command.slashCommand.name) commandsByName.set(name, command)
InsertByName(byName, command) ==
  IF command.name # "" THEN CollectionSet(byName, command.name, command)
  ELSE byName

\* for (const buttonId of command.handledButtonIds) commandsByButtonId.set(...)
InsertByButtonId(byButton, command) ==
  [k \in DOMAIN byButton \cup command.handledButtonIds |->
     IF k \in command.handledButtonIds THEN command ELSE byButton[k]]

\* A variation of LoadLoop that inserts a definition before it serializes it.
RECURSIVE LoadLoopInsertFirst(_, _, _)
LoadLoopInsertFirst(cmds, i, reg) ==
  IF i > Len(cmds) THEN reg
  ELSE LET put == [reg EXCEPT !.byName = InsertByName(@, cmds[i]),
                              !.byButton = InsertByButtonId(@, cmds[i])]
       IN IF ~cmds[i].serializable
          THEN [put EXCEPT !.error = cmds[i].name, !.threw = TRUE]
          ELSE LoadLoopInsertFirst(cmds, i + 1, put)

\* The loop over the container from position i on.  toJSON() of an
\* unserializable definition throws; the loop rethrows an Error naming the
\* command and the definitions inserted so far stay in the two collections.
RECURSIVE LoadLoop(_, _, _)
LoadLoop(cmds, i, reg) ==
  IF i > Len(cmds) THEN reg
  ELSE IF ~cmds[i].serializable
       THEN [reg EXCEPT !.error = cmds[i].name, !.threw = TRUE]
       ELSE LoadLoop(cmds, i + 1,
                     [reg EXCEPT !.byName = InsertByName(@, cmds[i]),
                                 !.byButton = InsertByButtonId(@, cmds[i])])

Load(cmds) ==
  LoadLoop(cmds, 1, [byName |-> EmptyCollection, byButton |-> EmptyCollection,
                     error |-> NoError, threw |-> FALSE])

(***************************************************************************)
(* Interaction events                                                      *)
(***************************************************************************)
\* const exemptUserIds = [...]
ExemptUserIds ==
  {"1215330175563071509", "1207844365838323812", "1217539821740757032"}

\* Callers seen in events: an exempt one and one that is not.
Callers == {"1215330175563071509", "42"}

\* What a hook does with the interaction before it returns or raises.
HookBehaviours == {"return", "reply_return", "throw", "reply_throw", "defer_throw"}

Event(kind, name, customId, chat, guild, member, inVoice, vcEval, hook, rOk, kOk) ==
  [kind |-> kind, commandName |-> name, customId |-> customId,
   isChatInputCommand |-> chat, guild |-> guild, member |-> member,
   inVoice |-> inVoice, vcEval |-> vcEval, hook |-> hook,
   replyOk |-> rOk, recoverOk |-> kOk]

\* Who sent the event and from where: guild or DM, member identity or none,
\* and what isUserInVoice(guild, user) answers for the caller.  A DM carries
\* no member; a guild event carries one unless the payload lacks it.
Origins ==
  { <<TRUE, m, v>> : m \in Callers, v \in BOOLEAN }
    \cup { <<TRUE, NoMember, FALSE>>, <<FALSE, NoMember, FALSE>> }

\* interaction.isCommand(): chat-input commands and context-menu commands.
\* vcEval is what command.requiresVC(interaction) does when it is a function;
\* replyOk and recoverOk are the outcomes of the router's own reply call and
\* of its recovery call.
CommandEvents ==
  { Event("command", n, "", c, o[1], o[2], o[3], e, h, r, k) :
      n \in {"play", "skip", "nope"}, c \in BOOLEAN, o \in Origins,
      e \in {"true", "false", "throw"}, h \in HookBehaviours,
      r \in BOOLEAN, k \in BOOLEAN }

ButtonEvents ==
  { Event("button", "", b, FALSE, o[1], o[2], o[3], "false", h, TRUE, k) :
      b \in {"b1", "b2", "b3", "b9"}, o \in Origins, h \in HookBehaviours,
      k \in BOOLEAN }

\* An autocomplete interaction has no reply()/deferReply(): its hook returns
\* or raises.
AutocompleteEvents ==
  { Event("autocomplete", n, "", FALSE, o[1], o[2], o[3], "false", h, TRUE, k) :
      n \in {"play", "skip", "nope"}, o \in Origins, h \in {"return", "throw"},
      k \in BOOLEAN }

\* Any other interaction kind (select menu, modal submit).
OtherEvents ==
  { Event("other", "", "", FALSE, o[1], o[2], o[3], "false", "return", TRUE, TRUE) :
      o \in Origins }

InteractionEvents ==
  CommandEvents \cup ButtonEvents \cup AutocompleteEvents \cup OtherEvents

(***************************************************************************)
(* The reply capability of one interaction                                 *)
(***************************************************************************)
Entry(op, m, eph, ok) == [op |-> op, msg |-> m, ephemeral |-> eph, ok |-> ok]

\* The run of one handler: what it did so far (log), the interaction's
\* replied and deferred flags, and whether an exception is in flight.
Start == [log |-> <<>>, replied |-> FALSE, deferred |-> FALSE, threw |-> FALSE]

\* interaction.reply(...): raises when the interaction was already replied to
\* or deferred, and when the call fails; sets replied when it succeeds.
Reply(st, m, eph, ok) ==
  IF st.replied \/ st.deferred
  THEN [st EXCEPT !.log = Append(@, Entry("reply", m, eph, FALSE)), !.threw = TRUE]
  ELSE IF ok
       THEN [st EXCEPT !.log = Append(@, Entry("reply", m, eph, TRUE)),
                       !.replied = TRUE]
       ELSE [st EXCEPT !.log = Append(@, Entry("reply", m, eph, FALSE)),
                       !.threw = TRUE]

\* interaction.editReply(...): edits the reply sent or deferred earlier.
EditReply(st, m, ok) ==
  IF ok /\ (st.replied \/ st.deferred)
  THEN [st EXCEPT !.log = Append(@, Entry("editReply", m, FALSE, TRUE))]
  ELSE [st EXCEPT !.log = Append(@, Entry("editReply", m, FALSE, FALSE)),
                  !.threw = TRUE]

\* await command.<hook>(interaction)
RunHook(st, hookName, behaviour) ==
  LET called == [st EXCEPT !.log = Append(@, Entry(hookName, "", FALSE, TRUE))]
  IN CASE behaviour = "return" -> called
       [] behaviour = "reply_return" -> Reply(called, "hook", FALSE, TRUE)
       [] behaviour = "throw" -> [called EXCEPT !.threw = TRUE]
       [] behaviour = "reply_throw" ->
            [Reply(called, "hook", FALSE, TRUE) EXCEPT !.threw = TRUE]
       [] behaviour = "defer_throw" ->
            [called EXCEPT !.deferred = TRUE, !.threw = TRUE]

(***************************************************************************)
(* client.on('interactionCreate', ...)                                     *)
(***************************************************************************)
\* A variation of ResolveRequiresVC that takes a raising function for true.
ResolveRequiresVCDefaultTrue(command, ev) ==
  IF command.requiresVC = "fn"
  THEN (IF ev.vcEval = "throw" THEN "true" ELSE ev.vcEval)
  ELSE command.requiresVC

\* const requiresVC = command.requiresVC instanceof Function
\*   ? command.requiresVC(interaction) : command.requiresVC
\* "throw" when the function raises.
ResolveRequiresVC(command, ev) ==
  IF command.requiresVC = "fn" THEN ev.vcEval ELSE command.requiresVC

\* A variation of GateDenies that has no exemption list.
GateDeniesNoExemption(requiresVC, ev) ==
  /\ requiresVC = "true"
  /\ ev.member # NoMember
  /\ ~ev.inVoice

\* requiresVC && interaction.member && !exemptUserIds.includes(member.user.id)
\*   && !isUserInVoice(interaction.guild, member.user)
GateDenies(requiresVC, ev) ==
  /\ requiresVC = "true"
  /\ ev.member # NoMember
  /\ ev.member \notin ExemptUserIds
  /\ ~ev.inVoice

\* A variation of HasGuild that takes every interaction for a guild one.
HasGuildAlways(ev) == TRUE

\* interaction.guild is set
HasGuild(ev) == ev.guild

\* The isCommand() branch of the try block.
CommandBranch(byName, ev) ==
  IF ~Has(byName, ev.commandName) \/ ~ev.isChatInputCommand THEN Start
  ELSE IF ~HasGuild(ev) THEN Reply(Start, "dm", FALSE, ev.replyOk)
  ELSE
    LET command == byName[ev.commandName]
        requiresVC == ResolveRequiresVC(command, ev)
        evaluated ==
          IF command.requiresVC = "fn"
          THEN [Start EXCEPT !.log = Append(@, Entry("requiresVC", "", FALSE,
                                                      requiresVC # "throw"))]
          ELSE Start
    IN IF requiresVC = "throw" THEN [evaluated EXCEPT !.threw = TRUE]
       ELSE IF GateDenies(requiresVC, ev)
            THEN Reply(evaluated, "vc", TRUE, ev.replyOk)
       ELSE IF command.execute THEN RunHook(evaluated, "execute", ev.hook)
       ELSE evaluated

\* A variation of ButtonBranch that makes the guild check of the commands.
ButtonBranchGuildChecked(byButton, ev) ==
  IF ~Has(byButton, ev.customId) THEN Start
  ELSE IF ~ev.guild THEN Reply(Start, "dm", FALSE, ev.replyOk)
  ELSE IF byButton[ev.customId].handleButtonInteraction
       THEN RunHook(Start, "handleButtonInteraction", ev.hook)
       ELSE Start

\* The isButton() branch of the try block.
ButtonBranch(byButton, ev) ==
  IF ~Has(byButton, ev.customId) THEN Start
  ELSE IF byButton[ev.customId].handleButtonInteraction
       THEN RunHook(Start, "handleButtonInteraction", ev.hook)
       ELSE Start

\* A variation of AutocompleteBranch that answers an unknown command name.
AutocompleteBranchAnswersUnknown(byName, ev) ==
  IF ~Has(byName, ev.commandName) THEN Reply(Start, "unknown", TRUE, TRUE)
  ELSE IF byName[ev.commandName].handleAutocompleteInteraction
       THEN RunHook(Start, "handleAutocompleteInteraction", ev.hook)
       ELSE Start

\* The isAutocomplete() branch of the try block.
AutocompleteBranch(byName, ev) ==
  IF ~Has(byName, ev.commandName) THEN Start
  ELSE IF byName[ev.commandName].handleAutocompleteInteraction
       THEN RunHook(Start, "handleAutocompleteInteraction", ev.hook)
       ELSE Start

TryBody(byName, byButton, ev) ==
  CASE ev.kind = "command" -> CommandBranch(byName, ev)
    [] ev.kind = "button" -> ButtonBranch(byButton, ev)
    [] ev.kind = "autocomplete" -> AutocompleteBranch(byName, ev)
    [] OTHER -> Start

\* A variation of Recover that also answers interactions that are neither a
\* command nor a button.
RecoverAnyKind(st, ev) ==
  IF st.replied \/ st.deferred
  THEN EditReply(st, "error", ev.recoverOk)
  ELSE Reply(st, "error", TRUE, ev.recoverOk)

\* A variation of Recover that tries a second time when the first call fails.
RecoverRetry(st, ev) ==
  LET first == IF ev.kind \in {"command", "button"} /\ (st.replied \/ st.deferred)
               THEN EditReply(st, "error", ev.recoverOk)
               ELSE IF ev.kind \in {"command", "button"}
                    THEN Reply(st, "error", TRUE, ev.recoverOk)
                    ELSE st
  IN IF first.threw
     THEN Reply([first EXCEPT !.threw = FALSE], "error", TRUE, ev.recoverOk)
     ELSE first

\* A variation of Recover that always sends a new reply.
RecoverAlwaysReply(st, ev) ==
  IF ev.kind \in {"command", "button"}
  THEN Reply(st, "error", TRUE, ev.recoverOk)
  ELSE st

\* The body of the inner try of the catch block: editReply when the
\* interaction was replied to or deferred, otherwise a new ephemeral reply;
\* nothing for an interaction that is neither a command nor a button.
Recover(st, ev) ==
  IF ev.kind \in {"command", "button"} /\ (st.replied \/ st.deferred)
  THEN EditReply(st, "error", ev.recoverOk)
  ELSE IF ev.kind \in {"command", "button"}
       THEN Reply(st, "error", TRUE, ev.recoverOk)
       ELSE st

\* A variation of Swallow that lets the exception of the recovery through.
SwallowNothing(st) == st

\* catch {} around the recovery: whatever it raised is dropped.
Swallow(st) == [st EXCEPT !.threw = FALSE]

\* The whole listener: the try block, and on an exception the catch block.
\* escaped says whether an exception leaves the listener.
HandleInteraction(byName, byButton, ev) ==
  LET tried == TryBody(byName, byButton, ev)
      final == IF tried.threw
               THEN Swallow(Recover([tried EXCEPT !.threw = FALSE], ev))
               ELSE tried
  IN [ev |-> ev, log |-> final.log, replied |-> final.replied,
      deferred |-> final.deferred, faulted |-> tried.threw,
      escaped |-> final.threw, handled |-> TRUE]

\* No interaction is being looked at.
NoInteraction ==
  [ev |-> Event("none", "", "", FALSE, FALSE, NoMember, FALSE, "false",
                "return", TRUE, TRUE),
   log |-> <<>>, replied |-> FALSE, deferred |-> FALSE, faulted |-> FALSE,
   escaped |-> FALSE, handled |-> FALSE]

(***************************************************************************)
(* Plain messages and the "?play" prefix                                   *)
(***************************************************************************)
\* Text is a sequence of characters.
Chars == {" ", "a"}

\* '?play'
Prefix == <<"?", "p", "l", "a", "y">>

\* The argument of message.content.slice(6)
SliceStart == 6

Contents ==
  { Prefix \o t : t \in SeqsUpTo(Chars, MaxTail) }
    \cup { <<>>, <<"?", "p">>, <<"a", "?", "p", "l", "a", "y">> }

\* String.prototype.startsWith
StartsWith(s, p) == Len(s) >= Len(p) /\ SubSeq(s, 1, Len(p)) = p

\* String.prototype.slice(n), n >= 0: the text from index n (0-based) on.
Slice(s, n) == SubSeq(s, n + 1, Len(s))

\* String.prototype.trim: white space removed at both ends.
RECURSIVE TrimStart(_)
TrimStart(s) ==
  IF s # <<>> /\ Head(s) = " " THEN TrimStart(Tail(s)) ELSE s

RECURSIVE TrimEnd(_)
TrimEnd(s) ==
  IF s # <<>> /\ s[Len(s)] = " " THEN TrimEnd(SubSeq(s, 1, Len(s) - 1)) ELSE s

Trim(s) == TrimEnd(TrimStart(s))

\* A variation of Query that cuts the text right after the prefix.
QueryAfterPrefix(content) == Trim(Slice(content, Len(Prefix)))

\* const query = message.content.slice(6).trim()
Query(content) == Trim(Slice(content, SliceStart))

\* What the play command's execute does with the adapter: it returns, it
\* raises, or it calls adapter.reply (message.reply) and returns.
AdapterBehaviours == {"return", "throw", "reply_return"}

Message(bot, origin, content, hook, replyOk) ==
  [authorBot |-> bot, guild |-> origin[1], member |-> origin[2],
   inVoice |-> origin[3], content |-> content, hook |-> hook,
   replyOk |-> replyOk]

Messages ==
  { Message(b, o, c, h, r) :
      b \in BOOLEAN, o \in Origins, c \in Contents, h \in AdapterBehaviours,
      r \in BOOLEAN }

\* The run of the message listener: what it did (log), whether an exception
\* is in flight (threw), and whether a reply promise it did not await
\* rejected with nobody handling it (unhandled).
MsgStart == [log |-> <<>>, threw |-> FALSE, unhandled |-> FALSE]

\* arg: the text handed to the command; text: the text sent to the channel.
MsgEntry(op, arg, text, ok) == [op |-> op, arg |-> arg, text |-> text, ok |-> ok]

\* message.reply(text) that is not awaited: a rejection is handled by nobody.
ReplyNotAwaited(st, text, ok) ==
  [st EXCEPT !.log = Append(@, MsgEntry("message.reply", <<>>, text, ok)),
             !.unhandled = @ \/ ~ok]

\* command.execute(adapter), where adapter.options.getString() is query and
\* adapter.reply forwards to message.reply.
ExecuteOnAdapter(st, query, behaviour) ==
  LET called == [st EXCEPT !.log = Append(@, MsgEntry("execute", query, "", TRUE))]
  IN CASE behaviour = "return" -> called
       [] behaviour = "throw" -> [called EXCEPT !.threw = TRUE]
       [] behaviour = "reply_return" ->
            [called EXCEPT !.log = Append(@, MsgEntry("adapter.reply", <<>>, "", TRUE))]

\* Lines 121-146: await command.execute(...) outside any try block.
MessageCreate1(byName, m) ==
  IF m.authorBot \/ ~m.guild THEN MsgStart
  ELSE IF ~StartsWith(m.content, Prefix) THEN MsgStart
  ELSE IF Has(byName, "play") /\ byName["play"].execute
       THEN ExecuteOnAdapter(MsgStart, Query(m.content), m.hook)
       ELSE ReplyNotAwaited(MsgStart, "Could not find the play command.",
                            m.replyOk)

\* Lines 257-286: execute inside try, the catch replies without awaiting.
MessageCreate2(byName, m) ==
  IF m.authorBot \/ ~m.guild THEN MsgStart
  ELSE IF ~StartsWith(m.content, Prefix) THEN MsgStart
  ELSE IF Has(byName, "play") /\ byName["play"].execute
       THEN LET run == ExecuteOnAdapter(MsgStart, Query(m.content), m.hook)
            IN IF run.threw
               THEN ReplyNotAwaited([run EXCEPT !.threw = FALSE],
                      "There was an error trying to execute that command.",
                      m.replyOk)
               ELSE run
       ELSE ReplyNotAwaited(MsgStart, "Could not find the play command.",
                            m.replyOk)

HandleMessage(v, byName, m) ==
  LET final == IF v = 1 THEN MessageCreate1(byName, m)
               ELSE MessageCreate2(byName, m)
  IN [m |-> m, log |-> final.log, escaped |-> final.threw,
      unhandled |-> final.unhandled, handled |-> TRUE]

NoMessage ==
  [m |-> Message(FALSE, <<FALSE, NoMember, FALSE>>, <<>>, "return", TRUE),
   log |-> <<>>, escaped |-> FALSE, unhandled |-> FALSE, handled |-> FALSE]

(***************************************************************************)
(* client.once('ready', ...): registration of the commands, then presence  *)
(***************************************************************************)
\* The scope of Routes.applicationCommands; guild scopes are 1..NumGuilds.
AppScope == 0

\* client.guilds.cache
Guilds == 1 .. NumGuilds

Scopes == Guilds \cup {AppScope}

NoCall == [status |-> "none", body |-> {}]

\* commandsByName.map(c => c.slashCommand): the definitions of the name index.
AllDefinitions(byName) == { byName[k].id : k \in DOMAIN byName }

\* A variation of CallsStarted that uploads every definition on the
\* application in both modes.
CallsStartedAppKeepsAll(onBot, byName) ==
  [s \in Scopes |->
     IF s = AppScope \/ ~onBot
     THEN [status |-> "pending", body |-> AllDefinitions(byName)]
     ELSE NoCall]

\* The REST calls the handler starts.  On the bot: one put of every definition
\* on the application.  Otherwise, inside one Promise.all: one upload of
\* every definition per guild and a put of [] on the application.
CallsStarted(onBot, byName) ==
  IF onBot
  THEN [s \in Scopes |->
          IF s = AppScope
          THEN [status |-> "pending", body |-> AllDefinitions(byName)]
          ELSE NoCall]
  ELSE [s \in Scopes |->
          IF s = AppScope
          THEN [status |-> "pending", body |-> {}]
          ELSE [status |-> "pending", body |-> AllDefinitions(byName)]]

\* A variation of AllSucceeded that is satisfied by the first success.
AnySucceeded(t) == \E s \in Scopes : t[s].status = "ok"

\* The awaited promise (the single put, or Promise.all) is fulfilled once
\* every started call has succeeded.
AllSucceeded(t) == \A s \in Scopes : t[s].status \in {"none", "ok"}

(***************************************************************************)
(* State                                                                   *)
(***************************************************************************)
Init ==
  /\ variant \in {1, 2}
  /\ container \in Containers
  /\ shouldRegisterCommandsOnBot \in BOOLEAN
  /\ commandsByName = EmptyCollection
  /\ commandsByButtonId = EmptyCollection
  /\ phase = "constructed"
  /\ loadError = NoError
  /\ ix = NoInteraction
  /\ msg = NoMessage
  /\ ready = "waiting"
  /\ tasks = [s \in Scopes |-> NoCall]
  /\ rejectedBy = {}
  /\ presenceSet = 0
  /\ syncRuns = 0

\* A variation of Register that goes on to the listeners and to login with
\* whatever the load loop left behind, also when it threw.
RegisterIgnoringLoadError ==
  /\ phase = "constructed"
  /\ LET reg == Load(container)
     IN /\ commandsByName' = reg.byName
        /\ commandsByButtonId' = reg.byButton
        /\ loadError' = reg.error
        /\ phase' = "listening"
  /\ UNCHANGED <<variant, container, shouldRegisterCommandsOnBot, ix, msg,
                 ready, tasks, rejectedBy, presenceSet, syncRuns>>

\* register(): the load loop; when it does not throw, the listeners are
\* registered and client.login() is called.
Register ==
  /\ phase = "constructed"
  /\ LET reg == Load(container)
     IN /\ commandsByName' = reg.byName
        /\ commandsByButtonId' = reg.byButton
        /\ loadError' = reg.error
        /\ phase' = IF reg.threw THEN "failed" ELSE "listening"
  /\ UNCHANGED <<variant, container, shouldRegisterCommandsOnBot, ix, msg,
                 ready, tasks, rejectedBy, presenceSet, syncRuns>>

\* No event is being looked at.
Idle == ~ix.handled /\ ~msg.handled

\* The interactionCreate listener runs on one event.  Only the first class
\* registers one.
InteractionCreate ==
  /\ phase = "listening"
  /\ variant = 1
  /\ Idle
  /\ \E ev \in InteractionEvents :
       ix' = HandleInteraction(commandsByName, commandsByButtonId, ev)
  /\ UNCHANGED <<variant, container, shouldRegisterCommandsOnBot,
                 commandsByName, commandsByButtonId, phase, loadError, msg,
                 ready, tasks, rejectedBy, presenceSet, syncRuns>>

\* The messageCreate listener runs on one message.
MessageCreate ==
  /\ phase = "listening"
  /\ Idle
  /\ \E m \in Messages : msg' = HandleMessage(variant, commandsByName, m)
  /\ UNCHANGED <<variant, container, shouldRegisterCommandsOnBot,
                 commandsByName, commandsByButtonId, phase, loadError, ix,
                 ready, tasks, rejectedBy, presenceSet, syncRuns>>

\* The listener is over; the router keeps nothing of the event.
Settle ==
  /\ ~Idle
  /\ ix' = NoInteraction
  /\ msg' = NoMessage
  /\ UNCHANGED <<variant, container, shouldRegisterCommandsOnBot,
                 commandsByName, commandsByButtonId, phase, loadError,
                 ready, tasks, rejectedBy, presenceSet, syncRuns>>

\* A variation of ReadyFires for a listener added with on instead of once: it
\* runs again on a later ready.
ReadyFiresEveryTime ==
  /\ phase = "listening"
  /\ syncRuns < 3
  /\ ready' = "syncing"
  /\ syncRuns' = syncRuns + 1
  /\ tasks' = CallsStarted(shouldRegisterCommandsOnBot, commandsByName)
  /\ UNCHANGED <<variant, container, shouldRegisterCommandsOnBot,
                 commandsByName, commandsByButtonId, phase, loadError, ix, msg,
                 rejectedBy, presenceSet>>

\* The client emits ready; the handler, added with once, starts its REST
\* calls and awaits them.
ReadyFires ==
  /\ phase = "listening"
  /\ ready = "waiting"
  /\ ready' = "syncing"
  /\ syncRuns' = syncRuns + 1
  /\ tasks' = CallsStarted(shouldRegisterCommandsOnBot, commandsByName)
  /\ UNCHANGED <<variant, container, shouldRegisterCommandsOnBot,
                 commandsByName, commandsByButtonId, phase, loadError, ix, msg,
                 rejectedBy, presenceSet>>

\* One REST call succeeds.  When it was the last one the handler is waiting
\* for, the handler goes on: setPresence, then it is done.
CallSucceeds ==
  /\ \E s \in Scopes :
       /\ tasks[s].status = "pending"
       /\ tasks' = [tasks EXCEPT ![s].status = "ok"]
  /\ IF ready = "syncing" /\ AllSucceeded(tasks')
     THEN ready' = "done" /\ presenceSet' = presenceSet + 1
     ELSE UNCHANGED <<ready, presenceSet>>
  /\ UNCHANGED <<variant, container, shouldRegisterCommandsOnBot,
                 commandsByName, commandsByButtonId, phase, loadError, ix, msg,
                 rejectedBy, syncRuns>>

\* One REST call fails.  The awaited promise rejects with this first failure
\* and the handler ends there; the calls still pending go on.
CallFails ==
  /\ \E s \in Scopes :
       /\ tasks[s].status = "pending"
       /\ tasks' = [tasks EXCEPT ![s].status = "failed"]
       /\ IF ready = "syncing"
          THEN ready' = "rejected" /\ rejectedBy' = {s}
          ELSE UNCHANGED <<ready, rejectedBy>>
  /\ UNCHANGED <<variant, container, shouldRegisterCommandsOnBot,
                 commandsByName, commandsByButtonId, phase, loadError, ix, msg,
                 presenceSet, syncRuns>>

\* Events looked at while the ready handler is in flight or over: well-formed
\* ones, from a guild member in a voice channel, whose hook returns.
EventsDuringStartup ==
  { ev \in InteractionEvents :
      /\ ev.guild /\ ev.member = "42" /\ ev.inVoice
      /\ ev.kind = "command" => ev.isChatInputCommand
      /\ ev.vcEval = "true" /\ ev.hook = "return"
      /\ ev.replyOk /\ ev.recoverOk }

MessagesDuringStartup ==
  { m \in Messages :
      /\ ~m.authorBot /\ m.guild /\ m.member = "42" /\ m.inVoice
      /\ m.hook = "return" /\ m.replyOk }

\* The listeners are added before the ready handler (58, 121, 150) and
\* nothing in them looks at how far the ready handler has got.  The handler
\* is async: while it awaits its REST calls, and once it is over, an event
\* the client emits runs its listener.
InteractionDuringStartup ==
  /\ phase = "listening"
  /\ variant = 1
  /\ ready \in {"syncing", "done"}
  /\ Idle
  /\ \E ev \in EventsDuringStartup :
       ix' = HandleInteraction(commandsByName, commandsByButtonId, ev)
  /\ UNCHANGED <<variant, container, shouldRegisterCommandsOnBot,
                 commandsByName, commandsByButtonId, phase, loadError, msg,
                 ready, tasks, rejectedBy, presenceSet, syncRuns>>

MessageDuringStartup ==
  /\ phase = "listening"
  /\ ready \in {"syncing", "done"}
  /\ Idle
  /\ \E m \in MessagesDuringStartup :
       msg' = HandleMessage(variant, commandsByName, m)
  /\ UNCHANGED <<variant, container, shouldRegisterCommandsOnBot,
                 commandsByName, commandsByButtonId, phase, loadError, ix,
                 ready, tasks, rejectedBy, presenceSet, syncRuns>>

\* The router: loading, then events one after the other.
Next == Register \/ InteractionCreate \/ MessageCreate \/ Settle

Spec == Init /\ [][Next]_vars

\* Startup: loading, then the ready handler and its REST calls, and the
\* events that come in meanwhile.
NextStartup ==
  \/ Register \/ ReadyFires \/ CallSucceeds \/ CallFails
  \/ InteractionDuringStartup \/ MessageDuringStartup \/ Settle

SpecStartup == Init /\ [][NextStartup]_vars

(***************************************************************************)
(* Properties                                                              *)
(***************************************************************************)
\* Positions of the log entries of one operation.
Ops(log, op) == { i \in DOMAIN log : log[i].op = op }

\* Positions of the reply() calls carrying message m.
Replies(log, m) == { i \in DOMAIN log : log[i].op = "reply" /\ log[i].msg = m }

\* The event just routed is a chat-input command found in the name index.
Routed ==
  /\ ix.handled
  /\ ix.ev.kind = "command"
  /\ ix.ev.isChatInputCommand
  /\ Has(commandsByName, ix.ev.commandName)

RoutedCommand == commandsByName[ix.ev.commandName]

\* ... in a guild, and its voice requirement resolves true.
Gated ==
  /\ Routed
  /\ ix.ev.guild
  /\ ResolveRequiresVC(RoutedCommand, ix.ev) = "true"

\* C1 as stated: every structured command without guild context, whatever its
\* name and whatever the reply call does, invokes no execute hook and is
\* answered by the DM-rejection reply and nothing else.
C1_AlwaysExactlyDmReply ==
  (ix.handled /\ ix.ev.kind = "command" /\ ~ix.ev.guild) =>
    /\ Ops(ix.log, "execute") = {}
    /\ Len(ix.log) = 1
    /\ ix.log[1].op = "reply" /\ ix.log[1].msg = "dm"

\* C1 amended: a chat-input command found in the name index and without
\* guild context invokes no execute hook and its first call is the
\* DM-rejection reply; nothing follows when that reply succeeds, one new
\* ephemeral error reply follows when it fails.  A command that is not found
\* or is not a chat-input command gets no reply at all.
C1_DmRejection ==
  (ix.handled /\ ix.ev.kind = "command" /\ ~ix.ev.guild) =>
    /\ Ops(ix.log, "execute") = {}
    /\ Ops(ix.log, "requiresVC") = {}
    /\ IF Routed
       THEN /\ ix.log[1] = Entry("reply", "dm", FALSE, ix.ev.replyOk)
            /\ ix.ev.replyOk => Len(ix.log) = 1
            /\ ~ix.ev.replyOk =>
                 ix.log = << Entry("reply", "dm", FALSE, FALSE),
                             Entry("reply", "error", TRUE, ix.ev.recoverOk) >>
       ELSE ix.log = <<>>

\* C1 witness: a DM command whose rejection reply failed and was followed by
\* the error reply.
C1_Witness ==
  /\ Routed /\ ~ix.ev.guild /\ ~ix.ev.replyOk
  /\ Len(ix.log) = 2

\* C2 as stated: a gated command whose caller is not exempt and not in voice
\* (member identity absent included) gets exactly one ephemeral
\* voice-channel-required reply and execute is not invoked.
C2_GateDeniesNonExempt ==
  (Gated /\ ix.ev.member \notin ExemptUserIds /\ ~ix.ev.inVoice) =>
    /\ Cardinality(Replies(ix.log, "vc")) = 1
    /\ \A i \in Replies(ix.log, "vc") : ix.log[i].ephemeral
    /\ Ops(ix.log, "execute") = {}

\* C3: a gated command whose caller is in the exemption set gets no
\* voice-channel rejection, in voice or not, and its execute hook, when
\* present, is invoked.
C3_ExemptAllowed ==
  (Gated /\ ix.ev.member \in ExemptUserIds) =>
    /\ Replies(ix.log, "vc") = {}
    /\ RoutedCommand.execute => Cardinality(Ops(ix.log, "execute")) = 1

\* C3 witness: an exempt caller outside voice whose gated command ran.
C3_Witness ==
  /\ Gated /\ ix.ev.member \in ExemptUserIds /\ ~ix.ev.inVoice
  /\ Ops(ix.log, "execute") # {}

\* The execute or button hook was invoked on the event just routed.
HookInvoked ==
  /\ ix.handled
  /\ ix.ev.kind \in {"command", "button"}
  /\ Ops(ix.log, "execute") \cup Ops(ix.log, "handleButtonInteraction") # {}

\* C4: when the execute or button hook raises after the event was replied to
\* or deferred, the recovery is one editReply and no new reply; when it
\* raises before any reply or deferral, the recovery is one new ephemeral
\* reply and no editReply.
C4_RecoveryEditsOrReplies ==
  /\ (HookInvoked /\ ix.ev.hook \in {"reply_throw", "defer_throw"}) =>
       /\ Cardinality(Ops(ix.log, "editReply")) = 1
       /\ ix.log[Len(ix.log)] = Entry("editReply", "error", FALSE, ix.ev.recoverOk)
       /\ Replies(ix.log, "error") = {}
  /\ (HookInvoked /\ ix.ev.hook = "throw") =>
       /\ Cardinality(Replies(ix.log, "error")) = 1
       /\ ix.log[Len(ix.log)] = Entry("reply", "error", TRUE, ix.ev.recoverOk)
       /\ Ops(ix.log, "editReply") = {}

\* C4 witness: a hook deferred the reply, raised, and the deferred reply was
\* edited.
C4_Witness ==
  /\ HookInvoked /\ ix.ev.hook = "defer_throw"
  /\ Ops(ix.log, "editReply") # {}

\* C5: whatever raises while an interaction is routed, the recovery call
\* included, no exception leaves the listener, and the router goes on
\* listening.
C5_NoFaultEscapes ==
  ix.handled => (~ix.escaped /\ phase = "listening")

\* C5 witness: the try block raised and the recovery call failed too.
C5_Witness ==
  /\ ix.handled /\ ix.faulted
  /\ ~ix.log[Len(ix.log)].ok
  /\ ix.log[Len(ix.log)].msg = "error"

\* The play command's execute was invoked on the adapter of the message just
\* handled.
Executed == msg.handled /\ Ops(msg.log, "execute") # {}

\* C6 as stated, for a raising execute: a plain-text failure reply is sent on
\* the message, no exception leaves the listener, and no rejected reply is
\* left unhandled.  (The command-not-found reply is not awaited either, so
\* its failure is left unhandled in both classes.)
C6_LegacyFaultContained ==
  (Executed /\ msg.m.hook = "throw") =>
    /\ \E i \in Ops(msg.log, "message.reply") :
         msg.log[i].text = "There was an error trying to execute that command."
    /\ ~msg.escaped
    /\ ~msg.unhandled

\* Last position of the container holding a definition named n.
LastNamed(n) ==
  CHOOSE j \in DOMAIN container :
    /\ container[j].name = n
    /\ \A k \in DOMAIN container : container[k].name = n => k <= j

\* C7: after a load, every name carried by one or more loaded definitions is
\* mapped by the name index to the last definition loaded with that name.
C7_LastWriteWins ==
  phase = "listening" =>
    \A i \in DOMAIN container :
      container[i].name # "" =>
        /\ Has(commandsByName, container[i].name)
        /\ commandsByName[container[i].name] = container[LastNamed(container[i].name)]

\* C7 witness: two different definitions named play were loaded and the
\* second is the one the index holds.
C7_Witness ==
  /\ phase = "listening"
  /\ Len(container) >= 2
  /\ container[1].name = "play" /\ container[2].name = "play"
  /\ container[1] # container[2]
  /\ commandsByName["play"] = container[2]

\* C8 as stated: when a definition fails to serialize, the load fails naming
\* it and neither index retains a definition of that load.
C8_AllOrNothing ==
  phase = "failed" =>
    /\ loadError # NoError
    /\ commandsByName = EmptyCollection
    /\ commandsByButtonId = EmptyCollection

\* Position of the first definition of the container that does not serialize.
FirstUnserializable ==
  CHOOSE i \in DOMAIN container :
    /\ ~container[i].serializable
    /\ \A k \in 1 .. (i - 1) : container[k].serializable

\* C8 amended: when a definition fails to serialize, the load fails with an
\* error naming it and no listener is registered; the definitions that
\* preceded it stay in the two indices, the failing one and those after it
\* are not inserted.
C8_FailedLoadKeepsPrefix ==
  phase = "failed" =>
    LET f == FirstUnserializable
        before == { container[k] : k \in 1 .. (f - 1) }
    IN /\ \E i \in DOMAIN container : ~container[i].serializable
       /\ loadError = container[f].name
       /\ DOMAIN commandsByName = { c.name : c \in before } \ {""}
       /\ DOMAIN commandsByButtonId = UNION { c.handledButtonIds : c \in before }
       /\ \A n \in DOMAIN commandsByName : commandsByName[n] \in before
       /\ \A b \in DOMAIN commandsByButtonId :
            /\ commandsByButtonId[b] \in before
            /\ b \in commandsByButtonId[b].handledButtonIds
       /\ ~ix.handled /\ ~msg.handled /\ ready = "waiting"

\* C8 witness: the load failed on its second definition and the first one is
\* in the name index.
C8_Witness ==
  /\ phase = "failed"
  /\ Len(container) >= 2
  /\ container[1].serializable /\ ~container[2].serializable
  /\ Has(commandsByName, container[1].name)

\* The ready handler is over, with or without an exception.
Returned == ready \in {"done", "rejected"}

FailedScopes == { s \in Scopes : tasks[s].status = "failed" }

PendingScopes == { s \in Scopes : tasks[s].status = "pending" }

C10_PrefixInvocation ==
  (msg.handled /\ StartsWith(msg.m.content, Prefix)) =>
    /\ Executed <=>
         /\ ~msg.m.authorBot
         /\ msg.m.guild
         /\ Has(commandsByName, "play") /\ commandsByName["play"].execute
    /\ Executed =>
         /\ Cardinality(Ops(msg.log, "execute")) = 1
         /\ \A i \in Ops(msg.log, "execute") :
              msg.log[i].arg = QueryAfterPrefix(msg.m.content)
    /\ (msg.m.authorBot \/ ~msg.m.guild) => msg.log = <<>>

\* C11: the registration pass runs at most once, and only after the load
\* succeeded and ready fired; setPresence is called at most once, only when
\* every registration call of that pass has succeeded; once a registration
\* call has failed the presence is never set.
C11_StartupOrdering ==
  /\ syncRuns <= 1
  /\ syncRuns = 1 <=> ready # "waiting"
  /\ ready # "waiting" => phase = "listening"
  /\ syncRuns = 0 => \A s \in Scopes : tasks[s].status = "none"
  /\ presenceSet <= 1
  /\ presenceSet = 1 =>
       /\ ready = "done"
       /\ \E s \in Scopes : tasks[s].status = "ok"
       /\ \A s \in Scopes : tasks[s].status \in {"none", "ok"}
  /\ FailedScopes # {} => (presenceSet = 0 /\ ready = "rejected")

\* C11 witness: in per-guild mode every call succeeded and the presence was
\* set once.
C11_Witness ==
  /\ ~shouldRegisterCommandsOnBot
  /\ ready = "done"
  /\ presenceSet = 1
  /\ \A s \in Scopes : tasks[s].status = "ok"

\* C12: on the bot, one put of every definition of the name index goes to the
\* application and no guild gets an upload; otherwise every guild of the
\* cache gets one upload of every definition of the name index and the
\* application gets one put of the empty list, never a non-empty one.
C12_ModesExclusive ==
  ready # "waiting" =>
    /\ syncRuns = 1
    /\ shouldRegisterCommandsOnBot =>
         /\ tasks[AppScope].status # "none"
         /\ tasks[AppScope].body = AllDefinitions(commandsByName)
         /\ \A g \in Guilds : tasks[g].status = "none"
    /\ ~shouldRegisterCommandsOnBot =>
         /\ \A g \in Guilds :
              /\ tasks[g].status # "none"
              /\ tasks[g].body = AllDefinitions(commandsByName)
         /\ tasks[AppScope].status # "none"
         /\ tasks[AppScope].body = {}

\* C12 witness: per-guild mode with a non-empty name index, all calls started.
C12_Witness ==
  /\ ~shouldRegisterCommandsOnBot
  /\ ready = "syncing"
  /\ commandsByName # EmptyCollection
  /\ \A g \in Guilds : tasks[g].body # {}

\* The container holds a definition without a name.
Nameless == { i \in DOMAIN container : container[i].name = "" }

\* C13 as stated: a definition whose name is empty or absent makes the load
\* fail, and no index holds such a definition.
C13_NamelessRejected ==
  (phase # "constructed" /\ Nameless # {}) =>
    /\ phase = "failed"
    /\ \A n \in DOMAIN commandsByName : commandsByName[n].name # ""
    /\ \A b \in DOMAIN commandsByButtonId : commandsByButtonId[b].name # ""

\* Last position of the container holding a definition that handles button b.
LastHandling(b) ==
  CHOOSE j \in DOMAIN container :
    /\ b \in container[j].handledButtonIds
    /\ \A k \in DOMAIN container : b \in container[k].handledButtonIds => k <= j

\* C13 amended: a definition whose name is empty or absent is not rejected.
\* The load fails only for a definition that does not serialize; the name
\* index never holds a nameless definition; after a load the UI-element index
\* maps each of its button ids to it, unless a later definition handles the
\* same id.
C13_NamelessSkippedByNameIndexOnly ==
  phase # "constructed" =>
    /\ phase = "failed" <=> (\E i \in DOMAIN container : ~container[i].serializable)
    /\ \A n \in DOMAIN commandsByName : n # "" /\ commandsByName[n].name = n
    /\ phase = "listening" =>
         \A i \in Nameless : \A b \in container[i].handledButtonIds :
           /\ Has(commandsByButtonId, b)
           /\ commandsByButtonId[b] = container[LastHandling(b)]

\* C13 witness: a load completed with a nameless definition, which the
\* UI-element index holds.
C13_Witness ==
  /\ phase = "listening"
  /\ Nameless # {}
  /\ \E b \in DOMAIN commandsByButtonId : commandsByButtonId[b].name = ""

\* The voice requirement of the command just routed is a function, and it
\* raised.
RequirementRaised ==
  /\ Routed
  /\ ix.ev.guild
  /\ RoutedCommand.requiresVC = "fn"
  /\ ix.ev.vcEval = "throw"

\* C14 as stated: a raising voice requirement counts as true: a non-exempt
\* caller outside voice gets the voice-channel rejection, any other caller
\* has execute invoked, and no generic error reply ends the event.
C14_RaisingRequirementIsTrue ==
  RequirementRaised =>
    /\ Replies(ix.log, "error") = {}
    /\ IF ix.ev.member \notin ExemptUserIds /\ ~ix.ev.inVoice
       THEN Cardinality(Replies(ix.log, "vc")) = 1 /\ Ops(ix.log, "execute") = {}
       ELSE RoutedCommand.execute => Cardinality(Ops(ix.log, "execute")) = 1

\* C14 amended: a raising voice requirement ends the event in the catch
\* block: one new ephemeral error reply is attempted, no voice-channel
\* rejection is sent and execute is not invoked, whoever the caller is.
C14_RaisingRequirementEndsInError ==
  RequirementRaised =>
    /\ ix.log = << Entry("requiresVC", "", FALSE, FALSE),
                   Entry("reply", "error", TRUE, ix.ev.recoverOk) >>
    /\ ix.faulted
    /\ ~ix.escaped

\* C14 witness: the requirement raised for an exempt caller and the error
\* reply was sent.
C14_Witness ==
  /\ RequirementRaised
  /\ ix.ev.member \in ExemptUserIds
  /\ ix.replied

\* C15 as stated: a "?play" message whose author is not exempt and not in a
\* voice channel does not get play's execute invoked when play requires a
\* voice channel.
C15_LegacyPathGated ==
  ( /\ msg.handled
    /\ StartsWith(msg.m.content, Prefix)
    /\ Has(commandsByName, "play")
    /\ commandsByName["play"].requiresVC = "true"
    /\ msg.m.member \notin ExemptUserIds
    /\ ~msg.m.inVoice ) => ~Executed

\* Positions of the replies and edits made through the interaction,
\* whoever made them.
Answers(log) == { i \in DOMAIN log : log[i].op \in {"reply", "editReply"} }

\* Positions of the hook invocations.
Hooks(log) ==
  Ops(log, "execute") \cup Ops(log, "handleButtonInteraction")
    \cup Ops(log, "handleAutocompleteInteraction")

\* The event just routed has no target: an unknown command name or a command
\* that is not a chat-input one, an unknown button id, an autocomplete for an
\* unknown name, or an interaction of another kind.
Unroutable ==
  /\ ix.handled
  /\ \/ ix.ev.kind = "command"
        /\ (~Has(commandsByName, ix.ev.commandName) \/ ~ix.ev.isChatInputCommand)
     \/ ix.ev.kind = "button" /\ ~Has(commandsByButtonId, ix.ev.customId)
     \/ ix.ev.kind = "autocomplete" /\ ~Has(commandsByName, ix.ev.commandName)
     \/ ix.ev.kind = "other"

\* The event just routed found a command that lacks the hook of its kind.
FoundWithoutHook ==
  /\ ix.handled
  /\ \/ Routed /\ ~RoutedCommand.execute
     \/ /\ ix.ev.kind = "button"
        /\ Has(commandsByButtonId, ix.ev.customId)
        /\ ~commandsByButtonId[ix.ev.customId].handleButtonInteraction
     \/ /\ ix.ev.kind = "autocomplete"
        /\ Has(commandsByName, ix.ev.commandName)
        /\ ~commandsByName[ix.ev.commandName].handleAutocompleteInteraction

\* C16 as stated: an unroutable event, with or without guild context, and a
\* found command lacking the matching hook end with no reply, no edit and no
\* hook invocation.
C16_UnroutableAndHooklessSilent ==
  (Unroutable \/ FoundWithoutHook) =>
    /\ Answers(ix.log) = {}
    /\ Hooks(ix.log) = {}

\* The chat-input command just routed passed the guild check and the voice
\* gate.
PassedChecks ==
  /\ Routed
  /\ ix.ev.guild
  /\ ResolveRequiresVC(RoutedCommand, ix.ev) # "throw"
  /\ ~GateDenies(ResolveRequiresVC(RoutedCommand, ix.ev), ix.ev)

\* C16 amended: an unroutable event ends with no reply, no edit and no hook
\* invocation, with or without guild context; so does a button or
\* autocomplete event whose command lacks the hook, and a chat-input command
\* lacking execute once it has passed the guild check and the voice gate.  A
\* chat-input command lacking execute is still answered by the DM rejection,
\* the voice-channel rejection or the error reply when one of those applies,
\* and its hook is never invoked.
C16_SilentWhenNothingToRun ==
  /\ Unroutable => ix.log = <<>>
  /\ FoundWithoutHook =>
       /\ Hooks(ix.log) = {}
       /\ (ix.ev.kind # "command" \/ PassedChecks) => Answers(ix.log) = {}
       /\ (ix.ev.kind = "command" /\ ~PassedChecks) =>
            \E i \in Answers(ix.log) : ix.log[i].msg \in {"dm", "vc", "error"}

\* C16 witness: a chat-input command without execute hook that requires a
\* voice channel passed the gate and nothing was sent.
C16_Witness ==
  /\ FoundWithoutHook
  /\ PassedChecks
  /\ ResolveRequiresVC(RoutedCommand, ix.ev) = "true"
  /\ ix.log = <<>>

\* The autocomplete hook of the event just routed was invoked and raised.
AutocompleteRaised ==
  /\ ix.handled
  /\ ix.ev.kind = "autocomplete"
  /\ Ops(ix.log, "handleAutocompleteInteraction") # {}
  /\ ix.ev.hook = "throw"

\* C17 as stated: a raising autocomplete hook is contained and followed by
\* the one recovery attempt, an edit or a new ephemeral error reply.
C17_AutocompleteRecovered ==
  AutocompleteRaised =>
    /\ ~ix.escaped
    /\ Cardinality({ i \in Answers(ix.log) : ix.log[i].msg = "error" }) = 1

\* C17 amended: a raising autocomplete hook is contained, and no recovery is
\* attempted: neither an edit nor a reply follows the hook.
C17_AutocompleteContainedOnly ==
  AutocompleteRaised =>
    /\ ~ix.escaped
    /\ ix.faulted
    /\ ix.log = << Entry("handleAutocompleteInteraction", "", FALSE, TRUE) >>

\* C17 witness: an autocomplete hook raised.
C17_Witness == AutocompleteRaised /\ ix.faulted /\ ~ix.replied

\* Positions of the recovery calls of the catch block.
Recoveries(log) == { i \in Answers(log) : log[i].msg = "error" }

\* C18: within one structured-command event nothing is done before the
\* lookup succeeds; the DM rejection comes first and alone; a dynamic voice
\* requirement is evaluated at most once, never without guild context, and
\* before the voice-channel rejection or the execute hook, of which at most
\* one happens, at most once; a recovery call is made at most once, only
\* after a fault, and it is the last thing done.
C18_StepOrder ==
  (ix.handled /\ ix.ev.kind = "command") =>
    /\ ix.log # <<>> => Routed
    /\ Cardinality(Ops(ix.log, "execute")) <= 1
    /\ Cardinality(Ops(ix.log, "requiresVC")) <= 1
    /\ Cardinality(Replies(ix.log, "dm")) <= 1
    /\ Cardinality(Replies(ix.log, "vc")) <= 1
    /\ Cardinality(Recoveries(ix.log)) <= 1
    /\ ~ix.ev.guild =>
         /\ Ops(ix.log, "requiresVC") = {}
         /\ Ops(ix.log, "execute") = {}
         /\ Replies(ix.log, "vc") = {}
         /\ Routed => Replies(ix.log, "dm") = {1}
    /\ ix.ev.guild => Replies(ix.log, "dm") = {}
    /\ \A i \in Ops(ix.log, "requiresVC") : i = 1
    /\ ~(Replies(ix.log, "vc") # {} /\ Ops(ix.log, "execute") # {})
    /\ \A i \in Replies(ix.log, "hook") : \E j \in Ops(ix.log, "execute") : j < i
    /\ Recoveries(ix.log) # {} <=> ix.faulted
    /\ \A i \in Recoveries(ix.log) : i = Len(ix.log)

\* C18 witness: the requirement was evaluated, execute ran, replied and
\* raised, and the reply was edited: four steps in that order.
C18_Witness ==
  /\ ix.handled /\ ix.ev.kind = "command"
  /\ Len(ix.log) = 4
  /\ ix.log[1].op = "requiresVC"
  /\ ix.log[2].op = "execute"
  /\ ix.log[3].op = "reply"
  /\ ix.log[4].op = "editReply"

\* The button or autocomplete event just routed found a command that has
\* the hook of its kind.
FoundWithHook ==
  /\ ix.handled
  /\ \/ /\ ix.ev.kind = "button"
        /\ Has(commandsByButtonId, ix.ev.customId)
        /\ commandsByButtonId[ix.ev.customId].handleButtonInteraction
     \/ /\ ix.ev.kind = "autocomplete"
        /\ Has(commandsByName, ix.ev.commandName)
        /\ commandsByName[ix.ev.commandName].handleAutocompleteInteraction

\* C20: a button or autocomplete event whose command has the matching hook
\* gets the hook invoked, first and once, with or without guild context and
\* whatever the command's voice requirement and the caller; no DM rejection
\* and no voice-channel rejection is ever sent for these kinds.
C20_NoChecksForButtonsAndAutocomplete ==
  /\ FoundWithHook =>
       /\ Cardinality(Hooks(ix.log)) = 1
       /\ Hooks(ix.log) = {1}
       /\ ix.log[1].op = (IF ix.ev.kind = "button" THEN "handleButtonInteraction"
                          ELSE "handleAutocompleteInteraction")
  /\ (ix.handled /\ ix.ev.kind \in {"button", "autocomplete"}) =>
       /\ Replies(ix.log, "dm") = {}
       /\ Replies(ix.log, "vc") = {}
       /\ Ops(ix.log, "requiresVC") = {}

\* C20 witness: outside any guild, a button of a command that requires a
\* voice channel had its hook invoked.
C20_Witness ==
  /\ FoundWithHook
  /\ ix.ev.kind = "button"
  /\ ~ix.ev.guild
  /\ commandsByButtonId[ix.ev.customId].requiresVC = "true"
  /\ Hooks(ix.log) = {1}

\* A command hook was handed the event just looked at, interaction or message.
Dispatched ==
  \/ ix.handled /\ Hooks(ix.log) # {}
  \/ Executed

\* Both startup passes are over: every registration call succeeded and the
\* presence was published.
StartupFinished == ready = "done" /\ presenceSet > 0

\* C19 as stated: no event is dispatched to a command hook before the
\* registration pass and the presence pass have completed.
C19_DispatchOnlyAfterStartup == Dispatched => StartupFinished

\* C19: an event is dispatched to a command hook only after the load loop
\* ended without error and the listeners were added; how far the
\* registration pass and the presence pass have got plays no part, and a
\* hook can run while registration calls are still pending and no presence
\* has been published.
C19_DispatchOnlyAfterLoad ==
  Dispatched =>
    /\ phase = "listening"
    /\ loadError = NoError

\* C19 witness: a hook ran while the ready handler was still awaiting a
\* registration call, before any presence was published.
C19_Witness ==
  /\ Dispatched
  /\ ready = "syncing"
  /\ PendingScopes # {}
  /\ presenceSet = 0

====
